---- MODULE Spec2Model ----
(***************************************************************************)
(* A model of generate_openapi.py: the whitelist extractor                  *)
(* (WhitelistVisitor, parse_file), the module path derivation               *)
(* (get_module_path), the OpenAPI builder (build_openapi) and the main      *)
(* script that merges the JSON store and rewrites the OpenAPI document.     *)
(*                                                                         *)
(* Text is modelled as a sequence of one-character strings, so that         *)
(* endswith, replace, split and join are computed as Python computes them.  *)
(* A docstring is a sequence of lexical units (a word, a blank, a line      *)
(* break, the return marker in either case).                                *)
(***************************************************************************)
EXTENDS Integers, Sequences, FiniteSets, TLC

VARIABLES pc, tree, store, swagger, data, todo, console, runs, input, output

vars == <<pc, tree, store, swagger, data, todo, console, runs, input, output>>

(***************************************************************************)
(* Bounds of the model.                                                     *)
(***************************************************************************)
MaxStem == 5
MaxDepth == 3
MaxDoc == 3
MaxRuns == 3

(***************************************************************************)
(* Python str operations on sequences of characters.                        *)
(***************************************************************************)
StartsWith(s, p) == Len(s) >= Len(p) /\ SubSeq(s, 1, Len(p)) = p

EndsWith(s, p) == Len(s) >= Len(p) /\ SubSeq(s, Len(s) - Len(p) + 1, Len(s)) = p

Replace(s, a, b) == [i \in 1..Len(s) |-> IF s[i] = a THEN b ELSE s[i]]

RECURSIVE Split(_, _)
Split(s, c) ==
    IF \A i \in 1..Len(s) : s[i] # c
    THEN <<s>>
    ELSE LET i == CHOOSE k \in 1..Len(s) : s[k] = c /\ \A j \in 1..(k - 1) : s[j] # c
         IN  <<SubSeq(s, 1, i - 1)>> \o Split(SubSeq(s, i + 1, Len(s)), c)

RECURSIVE Join(_, _)
Join(parts, c) ==
    IF parts = <<>> THEN <<>>
    ELSE IF Len(parts) = 1 THEN parts[1]
    ELSE parts[1] \o <<c>> \o Join(Tail(parts), c)

RECURSIVE Flatten(_)
Flatten(ss) == IF ss = <<>> THEN <<>> ELSE ss[1] \o Flatten(Tail(ss))

Last(s) == s[Len(s)]

(***************************************************************************)
(* The script's constants.                                                  *)
(***************************************************************************)
sep == "/"

root_dir == <<".", "/", "a", "p", "p", "s">>

excluded == { <<"h", "o", "o", "k", "s", ".", "p", "y">>,
              <<"s", "e", "t", "u", "p", ".", "p", "y">>,
              <<"_", "_", "i", "n", "i", "t", "_", "_", ".", "p", "y">>,
              <<"p", "a", "t", "c", "h", "e", "s", ".", "p", "y">> }

DotPy == <<".", "p", "y">>

default_module == <<"d", "e", "f", "a", "u", "l", "t", "_", "m", "o", "d", "u", "l", "e">>

(***************************************************************************)
(* get_module_path.  os.path.relpath of a path below root is the path with  *)
(* the (normalised) root and one separator removed.                         *)
(***************************************************************************)
NormPath(p) == IF StartsWith(p, <<".", sep>>) THEN SubSeq(p, 3, Len(p)) ELSE p

RelPath(file_path, root) ==
    LET f == NormPath(file_path)
        r == NormPath(root)
    IN  SubSeq(f, Len(r) + 2, Len(f))

get_module_path(root, file_path) ==
    LET rel == RelPath(file_path, root)
        rel_path == IF EndsWith(rel, DotPy) THEN SubSeq(rel, 1, Len(rel) - 3) ELSE rel
        module_path == Replace(rel_path, sep, ".")
        path_parts == Split(module_path, ".")
        result == IF Len(path_parts) > 1 THEN Join(Tail(path_parts), ".")
                  ELSE IF path_parts # <<>> THEN path_parts[1]
                  ELSE <<>>
    IN  IF result # <<>> THEN result ELSE default_module

(***************************************************************************)
(* Syntax trees (the ast module's node classes, by their field names).      *)
(* A FunctionDef carries what ast.get_docstring returns for it: present is  *)
(* FALSE for None, and text is the cleaned docstring otherwise.             *)
(***************************************************************************)
Name(id) == [node |-> "Name", id |-> id]

Constant(v) == [node |-> "Constant", value |-> v]

Attribute(value, attr) == [node |-> "Attribute", value |-> value, attr |-> attr]

Subscript(value) == [node |-> "Subscript", value |-> value, slice |-> "int"]

Call(func, keywords) == [node |-> "Call", func |-> func, keywords |-> keywords]

keyword(a, v) == [arg |-> a, value |-> v]

NoAnnotation == [node |-> "None"]

Arg(a, annotation) == [arg |-> a, annotation |-> annotation]

NoDoc == [present |-> FALSE, text |-> <<>>]

Doc(text) == [present |-> TRUE, text |-> text]

FunctionDef(name, decorator_list, args, doc, body, lineno) ==
    [node |-> "FunctionDef", name |-> name, decorator_list |-> decorator_list,
     args |-> args, doc |-> doc, body |-> body, lineno |-> lineno]

ClassDef(body) == [node |-> "ClassDef", body |-> body]

IfStmt(body) == [node |-> "If", body |-> body]

Pass == [node |-> "Pass"]

Module(body) == [node |-> "Module", body |-> body]

\* ast.iter_child_nodes restricted to statements: the decorators, arguments and
\* annotations of a definition are expressions, and no expression is a FunctionDef.
iter_child_nodes(node) == IF node.node = "Pass" THEN <<>> ELSE node.body

(***************************************************************************)
(* str.lower on the words the model uses.                                   *)
(***************************************************************************)
lower(w) ==
    CASE w = "List" -> "list"
      [] w = "Integer" -> "integer"
      [] w = "Boolean" -> "boolean"
      [] w = "MyType" -> "mytype"
      [] w = ":Return:" -> ":return:"
      [] OTHER -> w

LowerText(s) == [i \in 1..Len(s) |-> lower(s[i])]

Whitespace == {" ", "\n"}

RECURSIVE LStrip(_)
LStrip(s) == IF s # <<>> /\ s[1] \in Whitespace THEN LStrip(Tail(s)) ELSE s

RECURSIVE RStrip(_)
RStrip(s) ==
    IF s # <<>> /\ Last(s) \in Whitespace THEN RStrip(SubSeq(s, 1, Len(s) - 1)) ELSE s

Strip(s) == RStrip(LStrip(s))

(***************************************************************************)
(* WhitelistVisitor.visit_FunctionDef: the decorator test, the guest flag,  *)
(* the parameters, the response, and the visit of the nested definitions.   *)
(***************************************************************************)
IsWhitelist(dec) ==
    \/ /\ dec.node = "Call"
       /\ dec.func.node = "Attribute"
       /\ dec.func.attr = "whitelist"
       /\ dec.func.value.node = "Name"
       /\ dec.func.value.id = "frappe"
    \/ /\ dec.node = "Name"
       /\ dec.id = "whitelist"

AllowGuestAnyValue(dec) ==
    /\ dec.node = "Call"
    /\ dec.keywords # <<>>
    /\ \E i \in 1..Len(dec.keywords) : dec.keywords[i].arg = "allow_guest"

AllowGuest(dec) ==
    /\ dec.node = "Call"
    /\ dec.keywords # <<>>
    /\ \E i \in 1..Len(dec.keywords) :
          /\ dec.keywords[i].arg = "allow_guest"
          /\ dec.keywords[i].value.node = "Constant"
          /\ dec.keywords[i].value.value = "True"

ParamType(a) ==
    IF a.annotation.node = "Name" THEN lower(a.annotation.id)
    ELSE IF a.annotation.node = "Subscript"
         THEN IF a.annotation.value.node = "Name" /\ a.annotation.value.id = "list"
              THEN "array" ELSE "string"
    ELSE "string"

Params(node) ==
    LET kept == SelectSeq(node.args, LAMBDA a : a.arg # "self")
    IN  [i \in 1..Len(kept) |-> [name |-> kept[i].arg, type |-> ParamType(kept[i])]]

get_docstring(node) == IF node.doc.present THEN node.doc.text ELSE <<>>

JsonResponse == <<"JSON response">>

ResponseSchema(docstring) ==
    [type |-> "object",
     description |->
        IF \E i \in 1..Len(docstring) : LowerText(docstring)[i] = ":return:"
        THEN Split(Strip(Last(Split(docstring, ":return:"))), "\n")[1]
        ELSE JsonResponse]

WhitelistRecord(node, dec) ==
    [name |-> node.name,
     file |-> <<>>,
     line |-> node.lineno,
     allow_guest |-> AllowGuest(dec),
     docstring |-> get_docstring(node),
     parameters |-> Params(node),
     response |-> ResponseSchema(get_docstring(node))]

RECURSIVE visit(_)
RECURSIVE visit_FunctionDef(_)
RECURSIVE generic_visit(_)

visit_FunctionDef(node) ==
    LET decs == node.decorator_list
        recs == Flatten([i \in 1..Len(decs) |->
                    IF IsWhitelist(decs[i]) THEN <<WhitelistRecord(node, decs[i])>>
                    ELSE <<>>])
        kids == SelectSeq(iter_child_nodes(node), LAMBDA c : c.node = "FunctionDef")
    IN  recs \o Flatten([i \in 1..Len(kids) |-> visit(kids[i])])

generic_visit(node) ==
    LET kids == iter_child_nodes(node)
    IN  Flatten([i \in 1..Len(kids) |-> visit(kids[i])])

visit(node) ==
    IF node.node = "FunctionDef" THEN visit_FunctionDef(node) ELSE generic_visit(node)

(***************************************************************************)
(* parse_file.  A file's content is a Module (the text decodes and parses)  *)
(* or one of the two failures the function catches.  ast.dump renders the   *)
(* tree as text; the rendering is kept as the tree under the tag "dump".    *)
(***************************************************************************)
BadUtf8 == [node |-> "UnicodeDecodeError"]

BadSyntax == [node |-> "SyntaxError"]

Parses(src) == src.node = "Module"

ast_dump(t) == [dump |-> t]

None == [node |-> "None"]

ParsedFile(file_path, src) ==
    LET found == visit(src)
    IN  [file |-> file_path,
         whitelisted_methods |-> [i \in 1..Len(found) |-> [found[i] EXCEPT !.file = file_path]],
         ast_dump |-> ast_dump(src)]

parse_file_keeps_failed(file_path, src) ==
    IF Parses(src) THEN ParsedFile(file_path, src)
    ELSE [file |-> file_path, whitelisted_methods |-> <<>>, ast_dump |-> ast_dump(src)]

parse_file(file_path, src) == IF Parses(src) THEN ParsedFile(file_path, src) ELSE None

SkipMessage(file_path) == [text |-> "Skipping", path |-> file_path, why |-> "Unable to parse"]

\* What parse_file prints.
parse_file_prints(file_path, src) == IF Parses(src) THEN <<>> ELSE <<SkipMessage(file_path)>>

(***************************************************************************)
(* build_openapi.                                                           *)
(***************************************************************************)
ApiMethod == <<"/", "a", "p", "i", "/", "m", "e", "t", "h", "o", "d", "/">>

BasicAuthRequirement == <<[basicAuth |-> <<>>]>>

PathKey(module, name) == ApiMethod \o module \o <<".">> \o name

PostOperation(wl) ==
    ("summary" :> (IF wl.docstring # <<>> THEN Split(wl.docstring, "\n")[1] ELSE <<>>))
    @@ ("parameters" :> [i \in 1..Len(wl.parameters) |->
                            [name |-> wl.parameters[i].name,
                             in |-> "query",
                             schema |-> [type |-> wl.parameters[i].type]]])
    @@ ("responses" :> ("200" :> [description |-> wl.response.description,
                                  content |-> "application/json"]))
    @@ ("x-allow-guest" :> wl.allow_guest)

Operation(wl) ==
    [post |-> IF ~wl.allow_guest
              THEN PostOperation(wl) @@ ("security" :> BasicAuthRequirement)
              ELSE PostOperation(wl)]

\* The (file, method) pairs in the order the two loops of build_openapi take them.
Entries(functions) ==
    Flatten([i \in 1..Len(functions) |->
        [j \in 1..Len(functions[i].whitelisted_methods) |->
            [file |-> functions[i].file, wl |-> functions[i].whitelisted_methods[j]]]])

EntryKey(root, e) == PathKey(get_module_path(root, e.file), e.wl.name)

RECURSIVE AddPathsKeepFirst(_, _, _)
AddPathsKeepFirst(paths, root, entries) ==
    IF entries = <<>> THEN paths
    ELSE LET path == EntryKey(root, entries[1])
             next == [k \in (DOMAIN paths) \cup {path} |->
                         IF k \in DOMAIN paths THEN paths[k] ELSE Operation(entries[1].wl)]
         IN  AddPathsKeepFirst(next, root, Tail(entries))

RECURSIVE AddPaths(_, _, _)
AddPaths(paths, root, entries) ==
    IF entries = <<>> THEN paths
    ELSE LET path == EntryKey(root, entries[1])
             next == [k \in (DOMAIN paths) \cup {path} |->
                         IF k = path THEN Operation(entries[1].wl) ELSE paths[k]]
         IN  AddPaths(next, root, Tail(entries))

NoPaths == [k \in {} |-> k]

build_openapi(root, functions) ==
    [openapi |-> "3.0.0",
     info |-> [title |-> "Frappe API", version |-> "1.0.0"],
     paths |-> AddPaths(NoPaths, root, Entries(functions)),
     components |-> [securitySchemes |-> [basicAuth |-> [type |-> "http", scheme |-> "basic"]]],
     security |-> BasicAuthRequirement]

(***************************************************************************)
(* The inputs the specifications draw from.                                 *)
(***************************************************************************)
SeqsUpTo(S, n) == UNION {[1..k -> S] : k \in 0..n}

PathChars == {"a", "b", ".", "/"}

Letters == {"a", "b"}

\* A relative path os.walk yields and the script's filter lets through, of
\* ordinary names: every directory name and the file name begin with a letter,
\* and a letter precedes the file name's extension.
IsRelFile(rel) ==
    LET segs == Split(rel, sep)
    IN  /\ \A i \in 1..Len(segs) :
              segs[i] # <<>> /\ segs[i][1] \in Letters /\ (i < Len(segs) => Last(segs[i]) \in Letters)
        /\ EndsWith(Last(segs), DotPy)
        /\ Len(Last(segs)) > 3 /\ Last(segs)[Len(Last(segs)) - 3] \in Letters
        /\ Last(segs) \notin excluded

RelFiles == {rel \in {stem \o DotPy : stem \in SeqsUpTo(PathChars, MaxStem)} : IsRelFile(rel)}

Roots == {root_dir, NormPath(root_dir)}

Identifiers == {<<"f">>, <<"g">>}

DecoratorFuncs == {Attribute(Name("frappe"), "whitelist"), Attribute(Name("other"), "whitelist"),
                   Attribute(Name("frappe"), "other"), Name("whitelist")}

KeywordValues == {Constant("True"), Constant("False"), Constant("1"), Name("flag")}

Keywords == {keyword(a, v) : a \in {"allow_guest", "methods"}, v \in KeywordValues}

\* ast.parse accepts a repeated keyword (the compiler rejects it, later).
KeywordLists == {<<>>} \cup {<<k>> : k \in Keywords} \cup (Keywords \X Keywords)

Decorators ==
    {Name("whitelist"), Name("other"), Attribute(Name("frappe"), "whitelist")}
    \cup {Call(f, ks) : f \in DecoratorFuncs, ks \in KeywordLists}

PlainDecorator == Name("whitelist")

GuestDecorator == Call(Attribute(Name("frappe"), "whitelist"), <<keyword("allow_guest", Constant("True"))>>)

BaseDecorators == {PlainDecorator, GuestDecorator, Name("other")}

\* No decorator, any one decorator, or any decorator before or after a base one.
DecoratorLists ==
    {<<>>} \cup {<<d>> : d \in Decorators}
           \cup (Decorators \X BaseDecorators) \cup (BaseDecorators \X Decorators)

Annotations ==
    {NoAnnotation, Attribute(Name("frappe"), "Document")}
    \cup {Name(id) : id \in {"int", "str", "Integer", "Boolean", "MyType"}}
    \cup {Subscript(v) : v \in {Name("list"), Name("List"), Name("dict"),
                                Attribute(Name("typing"), "List")}}

Args == {Arg(a, t) : a \in {"self", "x", "y"}, t \in Annotations}

\* A signature repeats no parameter name.
ArgLists ==
    {<<>>} \cup {<<a>> : a \in Args}
           \cup {p \in Args \X Args : p[1].arg # p[2].arg}

DocWords == {"a", " ", "\n", ":return:", ":Return:"}

\* ast.get_docstring cleans the text: no leading blank, no blank line at either end.
Docstrings ==
    {NoDoc} \cup {Doc(t) : t \in {u \in SeqsUpTo(DocWords, MaxDoc) :
                                    u = <<>> \/ (u[1] \notin Whitespace /\ Last(u) # "\n")}}

\* Modules of one top-level function: every decorator list, every signature and
\* every docstring, the other two parts taken from a whitelisted base.
FunctionModules ==
    {Module(<<FunctionDef(<<"f">>, ds, <<>>, NoDoc, <<Pass>>, 1)>>) : ds \in DecoratorLists}
    \cup {Module(<<FunctionDef(<<"f">>, <<d>>, as, NoDoc, <<Pass>>, 1)>>) :
             d \in {PlainDecorator, GuestDecorator}, as \in ArgLists}
    \cup {Module(<<FunctionDef(<<"f">>, <<d>>, <<>>, doc, <<Pass>>, 1)>>) :
             d \in {PlainDecorator, GuestDecorator}, doc \in Docstrings}

NestDecoratorLists == {<<>>, <<PlainDecorator>>, <<Call(Attribute(Name("frappe"), "whitelist"), <<>>)>>}

\* Statements nested to depth d: a definition, a class or an if around one statement.
RECURSIVE Statements(_)
Statements(d) ==
    IF d = 0 THEN {Pass}
    ELSE LET inner == Statements(d - 1)
         IN  {Pass}
             \cup {FunctionDef(n, ds, <<>>, NoDoc, <<b>>, MaxDepth - d + 1) :
                      n \in Identifiers, ds \in NestDecoratorLists, b \in inner}
             \cup {ClassDef(<<b>>) : b \in inner}
             \cup {IfStmt(<<b>>) : b \in inner}

NestedModules == {Module(<<b>>) : b \in Statements(MaxDepth)}

FileAX == root_dir \o <<"/", "a", "/", "x", ".", "p", "y">>

Idle == <<>>

(***************************************************************************)
(* SpecPath: get_module_path applied to a file below the root.              *)
(***************************************************************************)
InitPath ==
    /\ pc = "path"
    /\ input \in {[root |-> root_dir, file |-> r \o <<sep>> \o rel] : r \in Roots, rel \in RelFiles}
    /\ output = Idle
    /\ tree = Idle /\ store = Idle /\ swagger = Idle /\ data = Idle
    /\ todo = Idle /\ console = Idle /\ runs = 0

ApplyPath ==
    /\ pc = "path"
    /\ output' = get_module_path(input.root, input.file)
    /\ pc' = "path_done"
    /\ UNCHANGED <<tree, store, swagger, data, todo, console, runs, input>>

NextPath == ApplyPath

SpecPath == InitPath /\ [][NextPath]_vars

(***************************************************************************)
(* SpecParse: parse_file on one file, then build_openapi on its record.     *)
(***************************************************************************)
InitParse ==
    /\ pc = "parse"
    /\ input \in {[file |-> FileAX, src |-> m] : m \in FunctionModules \cup NestedModules}
    /\ output = Idle
    /\ tree = Idle /\ store = Idle /\ swagger = Idle /\ data = Idle
    /\ todo = Idle /\ console = Idle /\ runs = 0

ParseStep ==
    /\ pc = "parse"
    /\ data' = <<parse_file(input.file, input.src)>>
    /\ console' = console \o parse_file_prints(input.file, input.src)
    /\ pc' = "build"
    /\ UNCHANGED <<tree, store, swagger, todo, runs, input, output>>

BuildStep ==
    /\ pc = "build"
    /\ swagger' = build_openapi(root_dir, data)
    /\ pc' = "built"
    /\ UNCHANGED <<tree, store, data, todo, console, runs, input, output>>

NextParse == ParseStep \/ BuildStep

SpecParse == InitParse /\ [][NextParse]_vars

(***************************************************************************)
(* Spec: the main script, run after run.  The tree under ./apps holds three *)
(* files, which os.walk yields in a fixed order; between two runs a file    *)
(* may be written, replaced or deleted.  The JSON store starts missing,     *)
(* corrupt, holding a JSON value that is no list, or holding the empty      *)
(* list.  json.dump followed by json.load gives back the lists, objects,    *)
(* strings, numbers and booleans the script stores, so the store holds the  *)
(* value written.                                                           *)
(***************************************************************************)
FileBX == root_dir \o <<"/", "b", "/", "x", ".", "p", "y">>

FileHooks == root_dir \o <<"/", "a", "/", "h", "o", "o", "k", "s", ".", "p", "y">>

WalkOrder == <<FileHooks, FileAX, FileBX>>

Absent == [node |-> "Absent"]

ModAuth == Module(<<FunctionDef(<<"f">>, <<Call(Attribute(Name("frappe"), "whitelist"), <<>>)>>,
                                <<Arg("x", NoAnnotation)>>, NoDoc, <<Pass>>, 1)>>)

ModGuest == Module(<<FunctionDef(<<"f">>, <<GuestDecorator>>, <<>>, Doc(<<"a">>), <<Pass>>, 1),
                     FunctionDef(<<"g">>, <<PlainDecorator>>, <<>>, NoDoc, <<Pass>>, 4)>>)

Contents(f) ==
    IF f = FileHooks THEN {ModAuth}
    ELSE IF f = FileAX THEN {Absent, BadUtf8, ModAuth, ModGuest}
    ELSE {Absent, BadSyntax, ModAuth}

Trees == {t \in [{FileHooks, FileAX, FileBX} -> {Absent, BadUtf8, BadSyntax, ModAuth, ModGuest}] :
             \A f \in DOMAIN t : t[f] \in Contents(f)}

\* The files os.walk yields: those present, in walk order.
Walk(t) == SelectSeq(WalkOrder, LAMBDA f : t[f] # Absent)

basename(file_path) == Last(Split(file_path, sep))

Wanted(file_path) == EndsWith(basename(file_path), DotPy) /\ basename(file_path) \notin excluded

load_store_fresh(st) == <<>>

\* The try block that reads the store: lines 144-150.
load_store(st) == IF st.kind = "list" THEN st.value ELSE <<>>

\* One summary block of the report per whitelisted method.
ReportBlocks(d) ==
    LET es == Entries(d)
    IN  [i \in 1..Len(es) |->
            [method |-> es[i].wl.name, guest |-> es[i].wl.allow_guest,
             file |-> es[i].wl.file, line |-> es[i].wl.line,
             parameters |-> es[i].wl.parameters,
             response |-> es[i].wl.response.description]]

Init ==
    /\ pc = "done"
    /\ runs = 0
    /\ tree \in Trees
    /\ store \in {[kind |-> k, value |-> <<>>] : k \in {"missing", "corrupt", "object", "list"}}
    /\ swagger = Idle /\ data = <<>> /\ todo = <<>> /\ console = <<>>
    /\ input = Idle /\ output = Idle

\* A file of the tree is written, replaced or deleted while the tool is not running.
EditTree ==
    /\ pc = "done"
    /\ runs < MaxRuns
    /\ \E f \in DOMAIN tree : \E c \in Contents(f) \ {tree[f]} : tree' = [tree EXCEPT ![f] = c]
    /\ UNCHANGED <<pc, store, swagger, data, todo, console, runs, input, output>>

\* The script is started; it reads the store and starts the walk.
LoadStore ==
    /\ pc = "done"
    /\ runs < MaxRuns
    /\ runs' = runs + 1
    /\ data' = load_store(store)
    /\ todo' = Walk(tree)
    /\ console' = <<>>
    /\ pc' = IF Walk(tree) = <<>> THEN "write_store" ELSE "scan"
    /\ UNCHANGED <<tree, store, swagger, input, output>>

\* One turn of the loop over the files: lines 154-159.
ScanFile ==
    /\ pc = "scan"
    /\ LET file_path == Head(todo)
           ast_data == parse_file(file_path, tree[file_path])
       IN  IF Wanted(file_path)
           THEN /\ data' = IF ast_data # None THEN Append(data, ast_data) ELSE data
                /\ console' = console \o parse_file_prints(file_path, tree[file_path])
           ELSE UNCHANGED <<data, console>>
    /\ todo' = Tail(todo)
    /\ pc' = IF Tail(todo) = <<>> THEN "write_store" ELSE "scan"
    /\ UNCHANGED <<tree, store, swagger, runs, input, output>>

WriteStore ==
    /\ pc = "write_store"
    /\ store' = [kind |-> "list", value |-> data]
    /\ pc' = "write_openapi"
    /\ UNCHANGED <<tree, swagger, data, todo, console, runs, input, output>>

WriteOpenapi ==
    /\ pc = "write_openapi"
    /\ swagger' = build_openapi(root_dir, data)
    /\ pc' = "report"
    /\ UNCHANGED <<tree, store, data, todo, console, runs, input, output>>

Report ==
    /\ pc = "report"
    /\ console' = console \o ReportBlocks(data)
    /\ pc' = "done"
    /\ UNCHANGED <<tree, store, swagger, data, todo, runs, input, output>>

Next == EditTree \/ LoadStore \/ ScanFile \/ WriteStore \/ WriteOpenapi \/ Report

Spec == Init /\ [][Next]_vars

(***************************************************************************)
(* What the claims speak of.                                                *)
(***************************************************************************)
\* The path segments of a relative path, the .py of the file name removed.
Segments(rel) ==
    LET segs == Split(rel, sep)
        n == Len(segs)
    IN  [i \in 1..n |-> IF i = n /\ EndsWith(segs[i], DotPy)
                        THEN SubSeq(segs[i], 1, Len(segs[i]) - 3) ELSE segs[i]]

SegmentModulePath(rel) ==
    IF Len(Segments(rel)) > 1 THEN Join(Tail(Segments(rel)), ".") ELSE Segments(rel)[1]

\* Every function definition of a tree, at any nesting position.
RECURSIVE FunctionDefs(_)
FunctionDefs(node) ==
    LET kids == iter_child_nodes(node)
    IN  (IF node.node = "FunctionDef" THEN <<node>> ELSE <<>>)
        \o Flatten([i \in 1..Len(kids) |-> FunctionDefs(kids[i])])

\* The bare name whitelist, or a call frappe.whitelist(...).
Recognised(dec) ==
    \/ dec = Name("whitelist")
    \/ dec.node = "Call" /\ dec.func = Attribute(Name("frappe"), "whitelist")

RecognisedOf(fn) == SelectSeq(fn.decorator_list, Recognised)

\* A call with a keyword argument allow_guest whose value is the literal True.
GuestCall(dec) ==
    /\ dec.node = "Call"
    /\ \E i \in 1..Len(dec.keywords) : dec.keywords[i] = keyword("allow_guest", Constant("True"))

Records == data[1].whitelisted_methods

Posts == {swagger.paths[k].post : k \in DOMAIN swagger.paths}

EffectiveSecurity(post) == IF "security" \in DOMAIN post THEN post["security"] ELSE swagger.security

OpenApiTypes == {"string", "integer", "number", "boolean", "array", "object"}

\* The text after the marker at position i of a docstring, up to the line break.
LineAfter(doc, i) == Split(SubSeq(doc, i + 1, Len(doc)), "\n")[1]

Markers(doc) == {i \in 1..Len(doc) : lower(doc[i]) = ":return:"}

(***************************************************************************)
(* C7: get_module_path(root, file) is the file's path relative to root,     *)
(* the .py extension stripped, the separators replaced by dots and the      *)
(* first path segment dropped, unless the relative path has one segment     *)
(* only, which is then returned.                                            *)
(***************************************************************************)
C7_ModulePathBySegments ==
    pc = "path_done" => output = SegmentModulePath(RelPath(input.file, input.root))

(***************************************************************************)
(* C1: every function definition of a parsed file, at any nesting position, *)
(* yields exactly one endpoint record if it carries a recognised decorator  *)
(* and none if it carries no such decorator.  (Stated for definitions that  *)
(* carry at most one recognised decorator; each definition of an input is   *)
(* on a line of its own.)                                                   *)
(***************************************************************************)
C1_OneRecordPerDecoratedDef ==
    (pc = "build" /\ \A i \in 1..Len(FunctionDefs(input.src)) :
                        Len(RecognisedOf(FunctionDefs(input.src)[i])) <= 1)
    => \A i \in 1..Len(FunctionDefs(input.src)) :
          LET fn == FunctionDefs(input.src)[i]
              got == SelectSeq(Records, LAMBDA r : r.name = fn.name /\ r.line = fn.lineno)
          IN  Len(got) = Len(RecognisedOf(fn))

(***************************************************************************)
(* C2: an operation has x-allow-guest true and no security requirement      *)
(* exactly if the decorator that produced its endpoint record is a call     *)
(* with a keyword allow_guest whose value is the literal True; otherwise    *)
(* x-allow-guest is false and the operation carries the basicAuth           *)
(* requirement.  (The record a path keeps is the one of the last            *)
(* recognised decorator of the function.)                                   *)
(***************************************************************************)
C2_GuestFlagFromLiteralTrue ==
    pc = "built" =>
       /\ \A post \in Posts :
             IF post["x-allow-guest"] THEN "security" \notin DOMAIN post
             ELSE "security" \in DOMAIN post /\ post["security"] = BasicAuthRequirement
       /\ LET fn == input.src.body[1]
          IN  (fn.node = "FunctionDef" /\ fn.body = <<Pass>> /\ RecognisedOf(fn) # <<>>)
              => LET key == PathKey(get_module_path(root_dir, input.file), fn.name)
                 IN  /\ DOMAIN swagger.paths = {key}
                     /\ swagger.paths[key].post["x-allow-guest"] = GuestCall(Last(RecognisedOf(fn)))

C2_Witness ==
    /\ pc = "built"
    /\ input.src.body[1].node = "FunctionDef"
    /\ Len(input.src.body[1].decorator_list) = 2
    /\ GuestCall(input.src.body[1].decorator_list[2])
    /\ \E post \in Posts : post["x-allow-guest"] /\ "security" \notin DOMAIN post

(***************************************************************************)
(* C8: the document declares exactly one security scheme (basicAuth, HTTP   *)
(* basic) and one global requirement on it, and basic auth is not the       *)
(* effective security requirement of any guest operation (the operation's   *)
(* own security entry when present, else the document's).                   *)
(***************************************************************************)
C8_GuestNotUnderBasicAuth ==
    pc = "built" =>
       /\ DOMAIN swagger.components.securitySchemes = {"basicAuth"}
       /\ swagger.components.securitySchemes.basicAuth = [type |-> "http", scheme |-> "basic"]
       /\ swagger.security = BasicAuthRequirement
       /\ \A post \in Posts :
             post["x-allow-guest"] => EffectiveSecurity(post) # BasicAuthRequirement

(***************************************************************************)
(* C9: the response description is the text that follows the return marker  *)
(* on the marker's line when the docstring contains the marker, and the     *)
(* generic JSON response when it contains none or is absent.  (Blanks       *)
(* around the text are not counted; with several markers any one may be     *)
(* the marker meant.)                                                       *)
(***************************************************************************)
C9_DescriptionFollowsMarker ==
    pc = "build" =>
       \A i \in 1..Len(Records) :
          LET doc == Records[i].docstring
              desc == Records[i].response.description
          IN  IF Markers(doc) = {} THEN desc = JsonResponse
              ELSE \E m \in Markers(doc) : Strip(desc) = Strip(LineAfter(doc, m))

(***************************************************************************)
(* C10: the type of every parameter, in every endpoint record and in every  *)
(* parameter schema of the document, is one of string, integer, number,     *)
(* boolean, array, object, whatever annotation the parameter carries.       *)
(***************************************************************************)
C10_ParameterTypesInEnum ==
    pc = "built" =>
       /\ \A i \in 1..Len(Records) : \A j \in 1..Len(Records[i].parameters) :
             Records[i].parameters[j].type \in OpenApiTypes
       /\ \A post \in Posts : \A j \in 1..Len(post["parameters"]) :
             post["parameters"][j].schema.type \in OpenApiTypes

(***************************************************************************)
(* The main script's claims.                                                *)
(***************************************************************************)
\* The prior store content: the empty list when the store file is missing, is not
\* valid JSON, or is not a list.
PriorContent(st) == IF st.kind \in {"missing", "corrupt", "object"} THEN <<>> ELSE st.value

\* The files a run scans and parses, in scan order.
ParsedFiles(t) == SelectSeq(Walk(t), LAMBDA f : Wanted(f) /\ Parses(t[f]))

\* The files a run scans and cannot decode or parse, in scan order.
FailedFiles(t) == SelectSeq(Walk(t), LAMBDA f : Wanted(f) /\ ~Parses(t[f]))

\* One record per file parsed in a run of the tool on tree t, in scan order.
RunRecords(t) == [i \in 1..Len(ParsedFiles(t)) |-> ParsedFile(ParsedFiles(t)[i], t[ParsedFiles(t)[i]])]

\* The tree with the files that cannot be parsed taken away.
WithoutFailed(t) == [f \in DOMAIN t |-> IF Parses(t[f]) THEN t[f] ELSE Absent]

PairOf(e) == <<get_module_path(root_dir, e.file), e.wl.name>>

Pairs(es) == {PairOf(es[i]) : i \in 1..Len(es)}

\* The last entry of es that yields pair p.
LastOf(es, p) == es[CHOOSE i \in 1..Len(es) :
                       PairOf(es[i]) = p /\ \A j \in (i + 1)..Len(es) : PairOf(es[j]) # p]

(***************************************************************************)
(* C3: the path set of the document a run writes is derived only from the   *)
(* endpoint records extracted from the files scanned in that run; an        *)
(* endpoint found only in the prior content of the JSON store is not in it. *)
(***************************************************************************)
C3_DocumentFromThisRunOnly ==
    pc = "report" =>
       DOMAIN swagger.paths = {PathKey(p[1], p[2]) : p \in Pairs(Entries(RunRecords(tree)))}

(***************************************************************************)
(* C4: the store a run writes is the prior store content (the empty list    *)
(* when the file is missing, not JSON or not a list) followed by one record *)
(* per file parsed in the run, in scan order; nothing is removed or         *)
(* deduplicated, so the prior store is a prefix of the store written.       *)
(***************************************************************************)
C4_StoreIsPriorPlusParsed ==
    [][pc = "write_store" =>
          /\ store' = [kind |-> "list", value |-> PriorContent(store) \o RunRecords(tree)]
          /\ Len(store'.value) = Len(PriorContent(store)) + Len(ParsedFiles(tree))]_vars

C4_Witness ==
    /\ pc = "write_openapi"
    /\ runs = 3
    /\ Len(ParsedFiles(tree)) = 2
    /\ Len(store.value) = 6
    /\ store.value[1] = store.value[3] /\ store.value[3] = store.value[5]

(***************************************************************************)
(* C5: the document has exactly one path per (modulePath, functionName)     *)
(* pair among the records given to build_openapi, under the key             *)
(* /api/method/{modulePath}.{functionName}; the operation under a path is   *)
(* the one built from the last record that yields the pair, and there is no *)
(* path that no record yields.                                              *)
(***************************************************************************)
C5_OnePathPerPairLastWins ==
    pc = "report" =>
       LET es == Entries(data)
       IN  /\ DOMAIN swagger.paths = {PathKey(p[1], p[2]) : p \in Pairs(es)}
           /\ Cardinality(DOMAIN swagger.paths) = Cardinality(Pairs(es))
           /\ \A p \in Pairs(es) :
                 swagger.paths[PathKey(p[1], p[2])] = Operation(LastOf(es, p).wl)

C5_Witness ==
    /\ pc = "report"
    /\ Cardinality(DOMAIN swagger.paths) = 2
    /\ \E i \in 1..Len(Entries(data)) : \E j \in (i + 1)..Len(Entries(data)) :
          /\ Entries(data)[i].file # Entries(data)[j].file
          /\ PairOf(Entries(data)[i]) = PairOf(Entries(data)[j])
          /\ Operation(Entries(data)[i].wl) # Operation(Entries(data)[j].wl)
          /\ j = Len(Entries(data))

(***************************************************************************)
(* C6: a scanned file that cannot be decoded or parsed yields the message   *)
(* Skipping <path>: Unable to parse, adds no record, and leaves the records *)
(* of the other files as they are: when the scan ends, the records to be    *)
(* written and built from are those of a run on the tree without that file, *)
(* and the console holds one such message per failed file, in scan order.   *)
(***************************************************************************)
C6_FailedFileIsSkipped ==
    pc = "write_store" =>
       /\ data = PriorContent(store) \o RunRecords(WithoutFailed(tree))
       /\ console = [i \in 1..Len(FailedFiles(tree)) |->
                        [text |-> "Skipping", path |-> FailedFiles(tree)[i], why |-> "Unable to parse"]]

C6_Witness ==
    /\ pc = "write_store"
    /\ runs = 2
    /\ Len(FailedFiles(tree)) = 2
    /\ Len(console) = 2
    /\ \E i \in 1..Len(data) : data[i].file = console[1].path

====
